---- MODULE Spec2Model ----
(***************************************************************************)
(* A model of imgblender's blending pipeline: the decorators of            *)
(* imgblender/common.py (can_fade, can_mask, will_clip, will_colorize,     *)
(* will_match_size) stacked around the blends of imgblender/blends.py.     *)
(*                                                                         *)
(* Array elements are exact rationals <<n, d>> (d > 0, lowest terms)       *)
(* extended with the IEEE special values the code can produce:             *)
(* <<1, 0>> = +inf, <<-1, 0>> = -inf, <<0, 0>> = NaN.  Rounding and signed *)
(* zero are not modelled.  An array is a record                            *)
(*   [err, shape, data]: shape a tuple of extents, data the elements in C  *)
(* order; err # "" stands for a raised exception of that name.             *)
(***************************************************************************)
EXTENDS Integers, Sequences, FiniteSets, TLC

\* ------------------------------------------------------------ bounds
\* Largest extent of an axis of an input array of the blend pipeline.
MaxExtent == 3
\* Largest number of axes of an input array of the size reconciler.
MaxAxes == 4
\* np.sqrt of a value that is no perfect square is rounded down to a
\* multiple of 1/SqrtScale.
SqrtScale == 64

\* --------------------------------------------------------- elements
Abs(n) == IF n < 0 THEN -n ELSE n
Sgn(n) == IF n < 0 THEN -1 ELSE IF n > 0 THEN 1 ELSE 0
Min(m, n) == IF m < n THEN m ELSE n
Max(m, n) == IF m < n THEN n ELSE m

RECURSIVE GCD(_, _)
GCD(m, n) == IF n = 0 THEN m ELSE GCD(n, m % n)

\* The rational n/d (d > 0) in lowest terms.
Q(n, d) == LET g == GCD(Abs(n), d) IN <<n \div g, d \div g>>

NaN == <<0, 0>>
PosInf == <<1, 0>>
NegInf == <<-1, 0>>
Zero == <<0, 1>>
One == <<1, 1>>
Half == <<1, 2>>
Two == <<2, 1>>

IsNaN(x) == x = NaN
IsFinite(x) == x[2] > 0

Neg(x) == <<-x[1], x[2]>>

Add(x, y) ==
    IF IsFinite(x) /\ IsFinite(y) THEN Q(x[1] * y[2] + y[1] * x[2], x[2] * y[2])
    ELSE IF IsNaN(x) \/ IsNaN(y) THEN NaN
    ELSE IF IsFinite(x) THEN y
    ELSE IF IsFinite(y) THEN x
    ELSE IF x = y THEN x ELSE NaN

Sub(x, y) == Add(x, Neg(y))

Mul(x, y) ==
    IF IsFinite(x) /\ IsFinite(y) THEN Q(x[1] * y[1], x[2] * y[2])
    ELSE IF IsNaN(x) \/ IsNaN(y) \/ x[1] = 0 \/ y[1] = 0 THEN NaN
    ELSE <<Sgn(x[1]) * Sgn(y[1]), 0>>

\* x / y as numpy computes it: a zero divisor gives an infinity or NaN.
Div(x, y) ==
    IF IsNaN(x) \/ IsNaN(y) THEN NaN
    ELSE IF IsFinite(y) /\ y[1] # 0 THEN Mul(x, <<Sgn(y[1]) * y[2], Abs(y[1])>>)
    ELSE IF IsFinite(y) THEN (IF x[1] = 0 THEN NaN ELSE <<Sgn(x[1]), 0>>)
    ELSE IF IsFinite(x) THEN Zero ELSE NaN

\* x < y; every comparison with NaN is false.
Lt(x, y) ==
    IF IsNaN(x) \/ IsNaN(y) THEN FALSE
    ELSE IF IsFinite(x) /\ IsFinite(y) THEN x[1] * y[2] < y[1] * x[2]
    ELSE IF x = y THEN FALSE
    ELSE x = NegInf \/ y = PosInf

Gt(x, y) == Lt(y, x)
Le(x, y) == IF IsNaN(x) \/ IsNaN(y) THEN FALSE ELSE ~Lt(y, x)
Ge(x, y) == Le(y, x)

AbsQ(x) == <<Abs(x[1]), x[2]>>

\* The largest k with k * k <= n.
ISqrt(n) == CHOOSE k \in 0..n : k * k <= n /\ (k + 1) * (k + 1) > n

\* np.sqrt: NaN below zero, exact on perfect squares, otherwise rounded
\* down to the grid of SqrtScale.
Sqrt(x) ==
    IF IsNaN(x) \/ x[1] < 0 THEN NaN
    ELSE IF ~IsFinite(x) THEN PosInf
    ELSE LET rn == ISqrt(x[1])
             rd == ISqrt(x[2])
         IN  IF rn * rn = x[1] /\ rd * rd = x[2] THEN Q(rn, rd)
             ELSE Q(ISqrt((x[1] * SqrtScale * SqrtScale) \div x[2]), SqrtScale)

\* ----------------------------------------------------------- arrays
\* The number of elements of an array of this shape.
RECURSIVE Size(_)
Size(shape) == IF shape = <<>> THEN 1 ELSE shape[1] * Size(Tail(shape))

\* The position of index tuple idx in C order, and the index tuple at
\* position k (both 0-based).
RECURSIVE Ravel(_, _)
Ravel(shape, idx) ==
    IF shape = <<>> THEN 0
    ELSE LET n == Len(shape)
         IN  Ravel(SubSeq(shape, 1, n - 1), SubSeq(idx, 1, n - 1)) * shape[n]
                 + idx[n]
RECURSIVE Unravel(_, _)
Unravel(shape, k) ==
    IF shape = <<>> THEN <<>>
    ELSE LET n == Len(shape)
         IN  Append(Unravel(SubSeq(shape, 1, n - 1), k \div shape[n]),
                    k % shape[n])

\* All index tuples of a shape.
Indices(shape) == {Unravel(shape, k) : k \in 0..(Size(shape) - 1)}

Err(e) == [err |-> e, shape |-> <<>>, data |-> <<>>]
IsAry(A) == A.err = ""
Scalar(v) == [err |-> "", shape |-> <<>>, data |-> <<v>>]
Const(shape, v) ==
    [err |-> "", shape |-> shape, data |-> [k \in 1..Size(shape) |-> v]]

\* The element of A at index tuple idx.
Elem(A, idx) == A.data[Ravel(A.shape, idx) + 1]

\* numpy's broadcasting of two shapes, aligned at the last axis.
PadL(s, n) == [k \in 1..n |-> IF k <= n - Len(s) THEN 1 ELSE s[k - (n - Len(s))]]
CanBroadcast(s, t) ==
    LET n == Max(Len(s), Len(t))
    IN  \A k \in 1..n :
            \/ PadL(s, n)[k] = PadL(t, n)[k]
            \/ PadL(s, n)[k] = 1
            \/ PadL(t, n)[k] = 1
BShape(s, t) ==
    LET n == Max(Len(s), Len(t))
    IN  [k \in 1..n |-> Max(PadL(s, n)[k], PadL(t, n)[k])]

\* The element of A that broadcasting puts at index idx of the result.
At(A, idx) ==
    Elem(A, [k \in 1..Len(A.shape) |->
                IF A.shape[k] = 1 THEN 0
                ELSE idx[k + Len(idx) - Len(A.shape)]])

\* The operands of an elementwise binary operation of numpy, paired up by
\* broadcasting: an operand that is an exception propagates, shapes that
\* do not broadcast raise ValueError.
Broadcast(A, B) ==
    IF ~IsAry(A) THEN A
    ELSE IF ~IsAry(B) THEN B
    ELSE IF A.shape = B.shape
        THEN [err |-> "", shape |-> A.shape,
              data |-> [k \in 1..Len(A.data) |-> <<A.data[k], B.data[k]>>]]
    ELSE IF ~CanBroadcast(A.shape, B.shape) THEN Err("ValueError")
    ELSE LET S == BShape(A.shape, B.shape)
         IN  [err |-> "", shape |-> S,
              data |-> [k \in 1..Size(S) |->
                           LET idx == Unravel(S, k - 1)
                           IN  <<At(A, idx), At(B, idx)>>]]

NpAdd(A, B) ==
    LET P == Broadcast(A, B)
    IN  [P EXCEPT !.data = [k \in 1..Len(P.data) |->
                               Add(P.data[k][1], P.data[k][2])]]
NpSub(A, B) ==
    LET P == Broadcast(A, B)
    IN  [P EXCEPT !.data = [k \in 1..Len(P.data) |->
                               Sub(P.data[k][1], P.data[k][2])]]
NpMul(A, B) ==
    LET P == Broadcast(A, B)
    IN  [P EXCEPT !.data = [k \in 1..Len(P.data) |->
                               Mul(P.data[k][1], P.data[k][2])]]

\* Python's None, as an argument or an unset variable.
None == Err("None")

\* ------------------------------------------------- common.py helpers
\* Axis positions used by _resize_array (1-based here, 0-based in Python).
X == 2
Y == 1
Z == 0

\* The shape of resized[pad[Z]:end[Z], pad[Y]:end[Y], pad[X]:end[X]]: the
\* three slices, then the remaining axes of resized in full.
ViewShape(shape, size, pad) ==
    [k \in 1..Len(size) |->
        IF k <= 3 THEN Max(0, Min(pad[k] + shape[k], size[k]) - pad[k])
        ELSE size[k]]

\* Whether numpy assigns a value of shape v into a view of shape w: unit
\* axes are stripped from the left of v while it has more axes than w,
\* then v must broadcast to exactly w.
RECURSIVE StripLeft(_, _)
StripLeft(v, n) ==
    IF Len(v) > n /\ v[1] = 1 THEN StripLeft(Tail(v), n) ELSE v
CanAssign(v, w) ==
    LET s == StripLeft(v, Len(w))
    IN  /\ Len(s) <= Len(w)
        /\ \A k \in 1..Len(s) :
              s[k] = 1 \/ s[k] = w[k + Len(w) - Len(s)]

\* _resize_array slicing as many axes as there are instead of three.
_resize_array_any_axes(a, size, fill) ==
    LET m == Min(Len(size), Len(a.shape))
        pad == [k \in 1..m |-> (size[k] - a.shape[k]) \div 2]
        view == [k \in 1..Len(size) |-> IF k <= m THEN a.shape[k] ELSE size[k]]
    IN  IF ~CanAssign(a.shape, view) THEN Err("ValueError")
        ELSE [err |-> "", shape |-> size,
              data |-> [j \in 1..Size(size) |->
                  LET idx == Unravel(size, j - 1)
                  IN  IF \A k \in 1..m : /\ pad[k] <= idx[k]
                                         /\ idx[k] < pad[k] + view[k]
                      THEN At(a, [k \in 1..Len(size) |->
                                     IF k <= m THEN idx[k] - pad[k]
                                     ELSE idx[k]])
                      ELSE fill]]

_resize_array(a, size, fill) ==
    LET m == Min(Len(size), Len(a.shape))
        size_diff == [k \in 1..m |-> size[k] - a.shape[k]]
        pad == [k \in 1..m |-> size_diff[k] \div 2]
        view == ViewShape(a.shape, size, pad)
    IN  IF m < X + 1 THEN Err("IndexError")
        ELSE IF ~CanAssign(a.shape, view) THEN Err("ValueError")
        ELSE [err |-> "", shape |-> size,
              data |-> [j \in 1..Size(size) |->
                  LET idx == Unravel(size, j - 1)
                  IN  IF \A k \in 1..3 : /\ pad[k] <= idx[k]
                                         /\ idx[k] < pad[k] + view[k]
                      THEN At(a, [k \in 1..Len(size) |->
                                     IF k <= 3 THEN idx[k] - pad[k]
                                     ELSE idx[k]])
                      ELSE fill]]

\* _grayscale_to_rgb filling channel 0 only.
_grayscale_to_rgb_one_channel(a) ==
    LET new_shape == Append(a.shape, 3)
    IN  [err |-> "", shape |-> new_shape,
         data |-> [k \in 1..Size(new_shape) |->
                      LET idx == Unravel(new_shape, k - 1)
                      IN  IF idx[Len(new_shape)] = 0
                          THEN Elem(a, SubSeq(idx, 1, Len(a.shape)))
                          ELSE Zero]]

_grayscale_to_rgb(a) ==
    LET new_shape == Append(a.shape, 3)
    IN  [err |-> "", shape |-> new_shape,
         data |-> [k \in 1..Size(new_shape) |->
                      Elem(a, SubSeq(Unravel(new_shape, k - 1), 1,
                                     Len(a.shape)))]]

\* ------------------------------------------------------- decorators
\* Each operator is the wrapper's own work; the call of the wrapped
\* function is the next step of the pipeline.

\* can_fade with the roles of a and ab exchanged.
can_fade_swapped(a, ab, fade) ==
    IF fade = One THEN ab
    ELSE NpAdd(ab, NpMul(NpSub(a, ab), Scalar(fade)))

\* can_fade without its shortcut for fade == 1.0.
can_fade_always_mixes(a, ab, fade) ==
    NpAdd(a, NpMul(NpSub(ab, a), Scalar(fade)))

\* can_fade's wrapper after fn returned ab.
\* can_fade adding the base where it subtracts it.
can_fade_sign_error(a, ab, fade) ==
    IF fade = One THEN ab
    ELSE NpAdd(a, NpMul(NpAdd(ab, a), Scalar(fade)))

can_fade(a, ab, fade) ==
    IF fade = One THEN ab
    ELSE NpAdd(a, NpMul(NpSub(ab, a), Scalar(fade)))

\* can_mask with the mask inverted.
can_mask_inverted(a, ab, mask) ==
    IF mask = None THEN ab
    ELSE NpAdd(NpMul(a, mask), NpMul(ab, NpSub(Scalar(One), mask)))

\* can_mask refusing a mask whose shape is not that of ab.
can_mask_same_shape(a, ab, mask) ==
    IF mask = None THEN ab
    ELSE IF mask.shape # ab.shape THEN Err("ValueError")
    ELSE NpAdd(NpMul(a, NpSub(Scalar(One), mask)), NpMul(ab, mask))

\* can_mask's wrapper after fn returned ab.
can_mask(a, ab, mask) ==
    IF mask = None THEN ab
    ELSE NpAdd(NpMul(a, NpSub(Scalar(One), mask)), NpMul(ab, mask))

Clip(x) == IF Lt(x, Zero) THEN Zero ELSE IF Gt(x, One) THEN One ELSE x

\* will_clip without its line ab[ab < 0.0] = 0.0.
will_clip_upper_only(ab) ==
    [err |-> "", shape |-> ab.shape,
     data |-> [k \in 1..Len(ab.data) |->
                  IF Gt(ab.data[k], One) THEN One ELSE ab.data[k]]]

\* will_clip without its line ab[ab > 1.0] = 1.0.
will_clip_lower_only(ab) ==
    [err |-> "", shape |-> ab.shape,
     data |-> [k \in 1..Len(ab.data) |->
                  IF Lt(ab.data[k], Zero) THEN Zero ELSE ab.data[k]]]

\* will_clip's wrapper after fn returned ab.
will_clip(ab) ==
    [err |-> "", shape |-> ab.shape,
     data |-> [k \in 1..Len(ab.data) |-> Clip(ab.data[k])]]

\* will_colorize without its test of the colorize flag.
will_colorize_always(a, b, colorize) ==
    LET a_dims == Len(a.shape)
        b_dims == Len(b.shape)
    IN  IF a_dims + 1 = b_dims /\ b.shape[b_dims] = 3
            THEN <<_grayscale_to_rgb(a), b>>
        ELSE IF b_dims + 1 = a_dims /\ a.shape[a_dims] = 3
            THEN <<a, _grayscale_to_rgb(b)>>
        ELSE <<a, b>>

\* will_colorize's wrapper before it calls fn: the pair <<a, b>> it passes.
will_colorize(a, b, colorize) ==
    LET a_dims == Len(a.shape)
        b_dims == Len(b.shape)
    IN  IF ~colorize THEN <<a, b>>
        ELSE IF a_dims + 1 = b_dims /\ b.shape[b_dims] = 3
            THEN <<_grayscale_to_rgb(a), b>>
        ELSE IF b_dims + 1 = a_dims /\ a.shape[a_dims] = 3
            THEN <<a, _grayscale_to_rgb(b)>>
        ELSE <<a, b>>

\* will_match_size passing the arrays on as they came when a resize fails.
will_match_size_lenient(a, b) ==
    LET n == Min(Len(a.shape), Len(b.shape))
        size == [k \in 1..n |-> Max(a.shape[k], b.shape[k])]
        ra == _resize_array(a, size, Zero)
        rb == _resize_array(b, size, Zero)
    IN  IF IsAry(ra) /\ IsAry(rb) THEN <<ra, rb>> ELSE <<a, b>>

\* will_match_size's wrapper before it calls fn: the pair <<a, b>> it
\* passes; an exception of the first resize leaves the second undone.
will_match_size(a, b) ==
    LET n == Min(Len(a.shape), Len(b.shape))
        size == [k \in 1..n |-> Max(a.shape[k], b.shape[k])]
        ra == _resize_array(a, size, Zero)
        rb == _resize_array(b, size, Zero)
    IN  IF ~IsAry(ra) THEN <<ra, None>> ELSE <<ra, rb>>

\* ----------------------------------------------------------- blends
\* One element of each blend of blends.py.
replace(a, b) == b
\* darker returning the larger of a and b.
darker_takes_larger(a, b) == IF Lt(b, a) THEN a ELSE b
\* darker starting from np.zeros_like(a) for a.copy().
darker_from_zeros(a, b) == IF Lt(b, a) THEN b ELSE Zero
darker(a, b) == IF Lt(b, a) THEN b ELSE a
multiply(a, b) == Mul(a, b)
\* color_burn dividing wherever b is, without its mask b != 0.
color_burn_unguarded(a, b) == Sub(One, Div(Sub(One, a), b))
color_burn(a, b) ==
    IF b # Zero THEN Sub(One, Div(Sub(One, a), b)) ELSE Zero
linear_burn(a, b) == Sub(Add(a, b), One)
\* lighter keeping a whatever b is.
lighter_keeps_base(a, b) == a
lighter(a, b) == IF Gt(b, a) THEN b ELSE a
screen(a, b) == Sub(One, Mul(Sub(One, a), Sub(One, b)))
\* color_dodge dividing wherever b is, without its mask b != 1.
color_dodge_unguarded(a, b) == Div(a, Sub(One, b))
color_dodge(a, b) == IF b # One THEN Div(a, Sub(One, b)) ELSE One
\* linear_dodge as the mean of a and b.
linear_dodge_mean(a, b) == Div(Add(a, b), Two)
linear_dodge(a, b) == Add(a, b)
difference(a, b) == AbsQ(Sub(a, b))
exclusion(a, b) == Sub(Add(a, b), Mul(Mul(Two, a), b))
hard_light(a, b) ==
    IF Lt(a, Half) THEN Mul(Mul(Two, a), b)
    ELSE IF Ge(a, Half)
        THEN Sub(One, Mul(Mul(Two, Sub(One, a)), Sub(One, b)))
    ELSE Zero
\* hard_mix with a >= 1 - b for a > 1 - b.
hard_mix_tie_is_one(a, b) == IF Ge(a, Sub(One, b)) THEN One ELSE Zero
hard_mix(a, b) == IF Gt(a, Sub(One, b)) THEN One ELSE Zero
linear_light(a, b) == Sub(Add(b, Mul(Two, a)), One)
overlay(a, b) ==
    IF Ge(a, Half) THEN Sub(One, Mul(Mul(Two, Sub(One, a)), Sub(One, b)))
    ELSE Mul(Mul(Two, a), b)
\* pin_light with the bounds 2a - 1 and 2a exchanged.
pin_light_bounds_swapped(a, b) ==
    LET m1 == Lt(b, Sub(Mul(Two, a), One))
        m2 == Gt(b, Mul(Two, a))
    IN  IF ~m1 /\ ~m2 THEN b
        ELSE IF m2 THEN Sub(Mul(Two, a), One)
        ELSE Mul(Two, a)
pin_light(a, b) ==
    LET m1 == Lt(b, Sub(Mul(Two, a), One))
        m2 == Gt(b, Mul(Two, a))
        m3 == ~m1 /\ ~m2
    IN  IF m3 THEN b
        ELSE IF m2 THEN Mul(Two, a)
        ELSE Sub(Mul(Two, a), One)
soft_light(a, b) ==
    IF Lt(a, Half)
        THEN Add(Mul(Sub(Mul(Two, a), One), Sub(b, Mul(b, b))), b)
    ELSE Add(Mul(Sub(Mul(Two, a), One), Sub(Sqrt(b), b)), b)
\* vivid_light without m1[a == 0] = False and m2[a == 1] = False.
vivid_light_unguarded(a, b) ==
    IF Gt(a, Half) THEN Div(b, Mul(Two, Sub(One, a)))
    ELSE IF Le(a, Half) THEN Sub(One, Div(Sub(One, b), Mul(Two, a)))
    ELSE Zero
vivid_light(a, b) ==
    LET m1 == Le(a, Half) /\ a # Zero
        m2 == Gt(a, Half) /\ a # One
    IN  IF m2 THEN Div(b, Mul(Two, Sub(One, a)))
        ELSE IF m1 THEN Sub(One, Div(Sub(One, b), Mul(Two, a)))
        ELSE Zero

\* The published blends, and those decorated with will_clip.
Blends ==
    {"replace", "darker", "multiply", "color_burn", "linear_burn", "lighter",
     "screen", "color_dodge", "linear_dodge", "difference", "exclusion",
     "hard_light", "hard_mix", "linear_light", "overlay", "pin_light",
     "soft_light", "vivid_light"}
Clipped == Blends \ {"replace"}

\* The function spam of the will_colorize tests: decorated with
\* will_colorize alone, it hands b back.
Spam == "spam"
\* darker as imgblender/blends.py publishes it: the same algorithm under
\* will_clip, can_mask and can_fade only.
Darker0 == "imgblender.blends.darker"

BlendAt(name, a, b) ==
    CASE name = "replace" -> replace(a, b)
      [] name = "darker" -> darker(a, b)
      [] name = "multiply" -> multiply(a, b)
      [] name = "color_burn" -> color_burn(a, b)
      [] name = "linear_burn" -> linear_burn(a, b)
      [] name = "lighter" -> lighter(a, b)
      [] name = "screen" -> screen(a, b)
      [] name = "color_dodge" -> color_dodge(a, b)
      [] name = "linear_dodge" -> linear_dodge(a, b)
      [] name = "difference" -> difference(a, b)
      [] name = "exclusion" -> exclusion(a, b)
      [] name = "hard_light" -> hard_light(a, b)
      [] name = "hard_mix" -> hard_mix(a, b)
      [] name = "linear_light" -> linear_light(a, b)
      [] name = "overlay" -> overlay(a, b)
      [] name = "pin_light" -> pin_light(a, b)
      [] name = "soft_light" -> soft_light(a, b)
      [] name = "vivid_light" -> vivid_light(a, b)
      [] name = Darker0 -> darker(a, b)

\* The undecorated blend on whole arrays.  replace (and spam) hands b
\* back; the others compute elementwise (the boolean-mask indexing of the
\* branching blends needs equal shapes).
Blend(name, a, b) ==
    IF name \in {"replace", Spam} THEN b
    ELSE IF a.shape # b.shape
            /\ name \notin {"multiply", "linear_burn", "screen",
                            "linear_dodge", "difference", "exclusion",
                            "linear_light"}
        THEN Err("IndexError")
    ELSE LET P == Broadcast(a, b)
         IN  [P EXCEPT !.data = [k \in 1..Len(P.data) |->
                                    BlendAt(name, P.data[k][1], P.data[k][2])]]

\* darker and lighter building their result in a itself (ab = a for
\* ab = a.copy()).
ReturnsWithoutCopy(name) ==
    IF name \in {"replace", Spam} THEN "b"
    ELSE IF name \in {"darker", "lighter", Darker0} THEN "a"
    ELSE "new"

\* The array object the undecorated blend returns: its argument b for
\* replace and spam (return b), a new array for the others (a.copy(),
\* np.zeros_like(a), np.ones_like(a) or the value of an expression).
Returns(name) ==
    IF name \in {"replace", Spam} THEN "b" ELSE "new"

\* The stack with will_colorize outside will_match_size.
DecoratorsColorizeFirst(name) ==
    IF name = "replace"
    THEN <<"can_mask", "can_fade", "will_colorize", "will_match_size">>
    ELSE <<"will_clip", "can_mask", "can_fade", "will_colorize",
           "will_match_size">>

\* The stack with will_match_size outermost.
DecoratorsMatchSizeOutermost(name) ==
    IF name = "replace"
    THEN <<"will_match_size", "can_mask", "can_fade", "will_colorize">>
    ELSE <<"will_match_size", "will_clip", "can_mask", "can_fade",
           "will_colorize">>

\* The decorators stacked on a published blend, outermost first (as
\* written above its def, top to bottom).
Decorators(name) ==
    IF name = Spam THEN <<"will_colorize">>
    ELSE IF name = Darker0 THEN <<"will_clip", "can_mask", "can_fade">>
    ELSE IF name = "replace"
    THEN <<"can_mask", "can_fade", "will_match_size", "will_colorize">>
    ELSE <<"will_clip", "can_mask", "can_fade", "will_match_size",
           "will_colorize">>

\* The wrappers that work before they call fn; the others work after fn
\* returned.
WorksBefore(d) == d \in {"will_match_size", "will_colorize"}
WorksAfter(d) == ~WorksBefore(d)

Reverse(seq) == [k \in 1..Len(seq) |-> seq[Len(seq) + 1 - k]]

\* The order in which one call does its work: going inward through the
\* stack, the undecorated blend, then coming back outward.
Schedule(name) ==
    SelectSeq(Decorators(name), WorksBefore)
        \o <<"blend">>
        \o Reverse(SelectSeq(Decorators(name), WorksAfter))

\* The stage after the one at position Len(done) + 1 of the schedule.
StageAfter(name, done) ==
    IF Len(done) + 1 < Len(Schedule(name))
    THEN Schedule(name)[Len(done) + 2]
    ELSE "returned"

\* What the wrapper at position k of the stack of blend name returns when
\* called with (A, B, fade=f, mask=m, colorize=c); past the last wrapper,
\* what the undecorated blend returns.  An exception is returned as the
\* array that stands for it.
RECURSIVE Call(_, _, _, _, _, _, _)
Call(name, k, A, B, f, m, c) ==
    IF k > Len(Decorators(name)) THEN Blend(name, A, B)
    ELSE LET d == Decorators(name)[k]
         IN  IF d = "will_match_size"
             THEN LET r == will_match_size(A, B)
                  IN  IF ~IsAry(r[1]) THEN r[1]
                      ELSE IF ~IsAry(r[2]) THEN r[2]
                      ELSE Call(name, k + 1, r[1], r[2], f, m, c)
             ELSE IF d = "will_colorize"
             THEN LET r == will_colorize(A, B, c)
                  IN  Call(name, k + 1, r[1], r[2], f, m, c)
             ELSE LET x == Call(name, k + 1, A, B, f, m, c)
                  IN  IF ~IsAry(x) THEN x
                      ELSE IF d = "can_fade" THEN can_fade(A, x, f)
                      ELSE IF d = "can_mask" THEN can_mask(A, x, m)
                      ELSE will_clip(x)

\* One whole call of blend name.
Published(name, A, B, f, m, c) == Call(name, 1, A, B, f, m, c)

\* ------------------------------------------------------ one call
\* One call blend(base, blend, fade=fade, mask=mask, colorize=colorize) of
\* the published operation named op, one stage of its schedule at a time.
VARIABLES
    op,         \* the published blend that is called
    base,       \* the caller's a
    blend,      \* the caller's b
    fade,       \* the caller's fade (an element; One when omitted)
    mask,       \* the caller's mask (an array, or None)
    colorize,   \* the caller's colorize flag
    a,          \* a as the innermost wrapper entered so far passes it on
    b,          \* b likewise
    raw,        \* what the undecorated blend returned
    ab,         \* the result as the innermost wrapper returned so far has it
    pc,         \* the stage that runs next, "returned" or "raised"
    exc,        \* the exception that ended the call, "" when none
    trace,      \* the stages that ran, in order
    ref         \* the array object ab is: "base" or "blend" for the
                \* caller's, "fresh" for one made during the call, ""
                \* before there is a result

vars ==
    <<op, base, blend, fade, mask, colorize, a, b, raw, ab, pc, exc, trace,
      ref>>
args == <<op, base, blend, fade, mask, colorize>>

\* ---------------------------------------------------------- inputs
InRange == {Zero, Q(1, 4), Half, Q(3, 4), One}
OutOfRange == {Q(-1, 2), Q(3, 2)}
Values == InRange \cup OutOfRange
Fades == {Zero, Half, One, Q(3, 2)}

\* An array whose elements run through seq in C order.
Ramp(shape, seq) ==
    [err |-> "", shape |-> shape,
     data |-> [k \in 1..Size(shape) |-> seq[((k - 1) % Len(seq)) + 1]]]

BaseRamp == <<Q(1, 4), One, Half, Q(3, 4)>>
BlendRamp == <<One, Half, Q(1, 4), Q(3, 4), Zero>>
MaskRamp == <<Half, Zero, One, Q(3, 2)>>

\* Images of one plane, at most MaxExtent columns and no more rows than
\* columns.
Shapes3 == {s \in {<<1, y, x>> : y \in 1..MaxExtent, x \in 1..MaxExtent} : s[2] <= s[3]}

\* Single-element images of every value, and images of every shape.
ImagePairs ==
    {<<Const(<<1, 1, 1>>, v), Const(<<1, 1, 1>>, w)>> : v \in Values, w \in Values}
    \cup {<<Ramp(s, BaseRamp), Ramp(t, BlendRamp)>> : s \in Shapes3, t \in Shapes3}

\* The masks a call is made with: none, or one of the shape the images
\* are reconciled to.
Masks(s, t) ==
    LET size == [k \in 1..3 |-> Max(s[k], t[k])]
    IN  {None, Const(size, Zero), Ramp(size, MaskRamp)}

MaxShape3(s, t) == [k \in 1..3 |-> Max(s[k], t[k])]

Init ==
    /\ op \in Blends
    /\ \E p \in ImagePairs : base = p[1] /\ blend = p[2]
    /\ fade \in Fades
    /\ mask \in Masks(base.shape, blend.shape)
    /\ colorize = TRUE
    /\ a = None /\ b = None /\ raw = None /\ ab = None
    /\ pc = Schedule(op)[1]
    /\ exc = ""
    /\ trace = <<>>
    /\ ref = ""

\* ---------------------------------------------------------- stages
Position(name, d) ==
    CHOOSE k \in 1..Len(Decorators(name)) : Decorators(name)[k] = d

\* The pair <<a, b>> the wrapper at position k of the stack is called
\* with: the caller's arrays as the wrappers outside it passed them on.
RECURSIVE PassedTo(_, _)
PassedTo(name, k) ==
    IF k = 1 THEN <<base, blend>>
    ELSE LET outer == Decorators(name)[k - 1]
             got == PassedTo(name, k - 1)
         IN  IF outer = "will_match_size" THEN will_match_size(got[1], got[2])
             ELSE IF outer = "will_colorize"
                 THEN will_colorize(got[1], got[2], colorize)
             ELSE got

\* The a of the wrapper of decorator d.
OwnA(d) == PassedTo(op, Position(op, d))[1]

Raise(e) ==
    /\ pc' = "raised"
    /\ exc' = e

\* will_match_size.wrapper up to its call of fn.
WillMatchSize ==
    /\ pc = "will_match_size"
    /\ trace' = Append(trace, "will_match_size")
    /\ LET got == PassedTo(op, Position(op, "will_match_size"))
           r == will_match_size(got[1], got[2])
       IN  IF IsAry(r[1]) /\ IsAry(r[2])
           THEN /\ a' = r[1] /\ b' = r[2]
                /\ pc' = StageAfter(op, trace)
                /\ UNCHANGED exc
           ELSE /\ Raise(IF IsAry(r[1]) THEN r[2].err ELSE r[1].err)
                /\ UNCHANGED <<a, b>>
    /\ UNCHANGED <<args, raw, ab, ref>>

\* will_colorize.wrapper up to its call of fn.
WillColorize ==
    /\ pc = "will_colorize"
    /\ trace' = Append(trace, "will_colorize")
    /\ LET got == PassedTo(op, Position(op, "will_colorize"))
           r == will_colorize(got[1], got[2], colorize)
       IN  a' = r[1] /\ b' = r[2]
    /\ pc' = StageAfter(op, trace)
    /\ UNCHANGED <<args, raw, ab, exc, ref>>

\* The arrays the undecorated blend is called with.
Innermost(name) == PassedTo(name, Len(Decorators(name)) + 1)

\* The array object the undecorated blend's argument w ("a" or "b") is:
\* the caller's, unless a wrapper replaced it (will_match_size by the
\* array _resize_array made, will_colorize by the one _grayscale_to_rgb
\* made).
ArgObject(name, w) ==
    LET got == Innermost(name)
        resized == \E k \in 1..Len(Decorators(name)) :
                       Decorators(name)[k] = "will_match_size"
    IN  IF resized THEN "fresh"
        ELSE IF w = "a" THEN (IF got[1] = base THEN "base" ELSE "fresh")
        ELSE (IF got[2] = blend THEN "blend" ELSE "fresh")

\* The undecorated blend.  What it builds in an array of the caller's is
\* in the caller's array afterwards.
RawBlend ==
    /\ pc = "blend"
    /\ trace' = Append(trace, "blend")
    /\ LET got == Innermost(op)
           r == Blend(op, got[1], got[2])
           obj == IF Returns(op) = "new" THEN "fresh"
                  ELSE ArgObject(op, Returns(op))
       IN  IF IsAry(r)
           THEN /\ raw' = r /\ ab' = r
                /\ ref' = obj
                /\ base' = IF obj = "base" THEN r ELSE base
                /\ blend' = IF obj = "blend" THEN r ELSE blend
                /\ pc' = StageAfter(op, trace)
                /\ UNCHANGED exc
           ELSE Raise(r.err) /\ UNCHANGED <<raw, ab, ref, base, blend>>
    /\ UNCHANGED <<op, fade, mask, colorize, a, b>>

\* can_fade.wrapper after fn returned: ab itself at fade 1.0, else the
\* new array of a + (ab - a) * fade.
CanFade ==
    /\ pc = "can_fade"
    /\ trace' = Append(trace, "can_fade")
    /\ LET r == can_fade(OwnA("can_fade"), ab, fade)
       IN  IF IsAry(r)
           THEN /\ ab' = r /\ pc' = StageAfter(op, trace) /\ UNCHANGED exc
                /\ ref' = IF fade = One THEN ref ELSE "fresh"
           ELSE Raise(r.err) /\ UNCHANGED <<ab, ref>>
    /\ UNCHANGED <<args, a, b, raw>>

\* can_mask.wrapper after fn returned: ab itself without a mask, else the
\* new array of a * (1 - mask) + ab * mask.
CanMask ==
    /\ pc = "can_mask"
    /\ trace' = Append(trace, "can_mask")
    /\ LET r == can_mask(OwnA("can_mask"), ab, mask)
       IN  IF IsAry(r)
           THEN /\ ab' = r /\ pc' = StageAfter(op, trace) /\ UNCHANGED exc
                /\ ref' = IF mask = None THEN ref ELSE "fresh"
           ELSE Raise(r.err) /\ UNCHANGED <<ab, ref>>
    /\ UNCHANGED <<args, a, b, raw>>

\* will_clip.wrapper after fn returned: it overwrites ab in place, so an
\* ab that is an array of the caller's is clipped in the caller's hands.
WillClip ==
    /\ pc = "will_clip"
    /\ trace' = Append(trace, "will_clip")
    /\ ab' = will_clip(ab)
    /\ base' = IF ref = "base" THEN ab' ELSE base
    /\ blend' = IF ref = "blend" THEN ab' ELSE blend
    /\ pc' = StageAfter(op, trace)
    /\ UNCHANGED <<op, fade, mask, colorize, a, b, raw, exc, ref>>

Next ==
    \/ WillMatchSize
    \/ WillColorize
    \/ RawBlend
    \/ CanFade
    \/ CanMask
    \/ WillClip

Spec == Init /\ [][Next]_vars

\* Calls with arrays of one to MaxAxes axes, at full strength and unmasked.
SizeExtents == {1, 3}
RECURSIVE ShapesOf(_)
ShapesOf(n) ==
    IF n = 0 THEN {<<>>}
    ELSE {Append(s, e) : s \in ShapesOf(n - 1), e \in SizeExtents}
SizeShapes == UNION {ShapesOf(n) : n \in 1..MaxAxes}

InitSize ==
    /\ op \in {"replace", "linear_dodge"}
    /\ \E s \in SizeShapes, t \in SizeShapes :
          base = Ramp(s, BaseRamp) /\ blend = Ramp(t, BlendRamp)
    /\ fade = One
    /\ mask = None
    /\ colorize = TRUE
    /\ a = None /\ b = None /\ raw = None /\ ab = None
    /\ pc = Schedule(op)[1]
    /\ exc = ""
    /\ trace = <<>>
    /\ ref = ""

SpecSize == InitSize /\ [][Next]_vars

\* Calls of spam and of multiply with arrays of fewer than MaxAxes axes,
\* with and without colorize, at full strength and unmasked.
ColorizeShapes == UNION {ShapesOf(n) : n \in 1..(MaxAxes - 1)}

InitColorize ==
    /\ op \in {Spam, "multiply"}
    /\ \E s \in ColorizeShapes, t \in ColorizeShapes :
          base = Ramp(s, BaseRamp) /\ blend = Ramp(t, BlendRamp)
    /\ fade = One
    /\ mask = None
    /\ colorize \in BOOLEAN
    /\ a = None /\ b = None /\ raw = None /\ ab = None
    /\ pc = Schedule(op)[1]
    /\ exc = ""
    /\ trace = <<>>
    /\ ref = ""

SpecColorize == InitColorize /\ [][Next]_vars

\* Calls with a mask of any shape: images and masks of one plane, of two
\* axes and of four.
MaskShapes == Shapes3 \cup {<<1, 1>>, <<1, 1, 1, 1>>}

InitMask ==
    /\ op \in {"replace", "darker"}
    /\ \E s \in MaskShapes, t \in MaskShapes :
          base = Ramp(s, BaseRamp) /\ blend = Ramp(t, BlendRamp)
    /\ fade \in {Half, One}
    /\ mask \in {None} \cup {Ramp(s, MaskRamp) : s \in MaskShapes}
    /\ colorize = TRUE
    /\ a = None /\ b = None /\ raw = None /\ ab = None
    /\ pc = Schedule(op)[1]
    /\ exc = ""
    /\ trace = <<>>
    /\ ref = ""

SpecMask == InitMask /\ [][Next]_vars

\* Calls on single-element arrays of every value, NaN included, and on
\* ramps of two shapes, of the blends that choose between their arguments
\* and of darker as the older module publishes it.
ValuesAndNaN == Values \cup {NaN}
ValueShapes == {<<1, 1, 2>>, <<1, 2, 3>>}
ValuePairs ==
    {<<Const(<<1, 1, 1>>, v), Const(<<1, 1, 1>>, w)>> :
        v \in ValuesAndNaN, w \in ValuesAndNaN}
    \cup {<<Ramp(s, BaseRamp), Ramp(t, BlendRamp)>> :
            s \in ValueShapes, t \in ValueShapes}

InitValues ==
    /\ op \in {"hard_light", "overlay", "darker", "lighter", Darker0}
    /\ \E p \in ValuePairs : base = p[1] /\ blend = p[2]
    /\ op = Darker0 => base.shape = blend.shape
    /\ fade \in {Half, One}
    /\ mask \in {None, Const(MaxShape3(base.shape, blend.shape), Half)}
    /\ colorize = TRUE
    /\ a = None /\ b = None /\ raw = None /\ ab = None
    /\ pc = Schedule(op)[1]
    /\ exc = ""
    /\ trace = <<>>
    /\ ref = ""

SpecValues == InitValues /\ [][Next]_vars

\* ----------------------------------------------------------- claims
Returned == pc = "returned"
Finished == pc \in {"returned", "raised"}
\* The stage that ran last returned (did not raise).
JustRan(stage) ==
    /\ trace # <<>>
    /\ trace[Len(trace)] = stage
    /\ pc # "raised"
InUnit(x) == Le(Zero, x) /\ Le(x, One)
AllInUnit(A) == \A k \in 1..Len(A.data) : InUnit(A.data[k])
UnitInputs == AllInUnit(base) /\ AllInUnit(blend)
IsPrefix(s, t) == Len(s) <= Len(t) /\ s = SubSeq(t, 1, Len(s))
MaxShape(s, t) == [k \in 1..Len(s) |-> Max(s[k], t[k])]

\* A zero array of shape size holding A at offset floor((size - shape)/2)
\* on every axis.
Centered(A, size) ==
    LET off == [i \in 1..Len(size) |-> (size[i] - A.shape[i]) \div 2]
    IN  [err |-> "", shape |-> size,
         data |-> [k \in 1..Size(size) |->
             LET idx == Unravel(size, k - 1)
             IN  IF \A i \in 1..Len(size) :
                        off[i] <= idx[i] /\ idx[i] < off[i] + A.shape[i]
                 THEN Elem(A, [i \in 1..Len(size) |-> idx[i] - off[i]])
                 ELSE Zero]]

StageOrder ==
    <<"will_match_size", "will_colorize", "blend", "can_fade", "can_mask",
      "will_clip">>

\* C1: the stages of one call run in the order will_match_size,
\* will_colorize, the blend, can_fade, can_mask, will_clip; a call that
\* returns ran them all, replace all but will_clip.
C1_StageOrder ==
    /\ IsPrefix(trace, StageOrder)
    /\ Returned =>
          trace = IF op = "replace" THEN SubSeq(StageOrder, 1, 5)
                  ELSE StageOrder
C1_Witness ==
    /\ Returned
    /\ op = "darker"
    /\ trace = StageOrder
    /\ mask # None
    /\ fade = Half

\* C2 as claimed: every element a clipped blend returns lies in [0,1],
\* whatever the values of base, blend, fade and mask.
C2_Original ==
    (Returned /\ op \in Clipped) => AllInUnit(ab)
\* C2 amended: every element a clipped blend returns lies in [0,1] or is
\* NaN, and it is NaN wherever soft_light met a negative blend value
\* under a base value of at least 0.5.
C2_ClippedOrNaN ==
    (Returned /\ op \in Clipped) =>
        /\ \A k \in 1..Len(ab.data) : IsNaN(ab.data[k]) \/ InUnit(ab.data[k])
        /\ op = "soft_light" =>
              /\ ab.shape = a.shape
              /\ \A k \in 1..Len(ab.data) :
                    (Lt(b.data[k], Zero) /\ Ge(a.data[k], Half)) =>
                        IsNaN(ab.data[k])
C2_Witness ==
    /\ Returned
    /\ op \in Clipped
    /\ fade = Q(3, 2)
    /\ mask # None
    /\ \E k \in 1..Len(base.data) : Lt(base.data[k], Zero)
    /\ \E k \in 1..Len(raw.data) : Gt(raw.data[k], One)
    /\ AllInUnit(ab)

\* C3: with values in [0,1], fade = 0 and no mask, every call returns an
\* array equal to the base array in shape and values.
C3_FadeZeroReturnsBase ==
    (UnitInputs /\ fade = Zero /\ mask = None /\ Finished) =>
        (Returned /\ ab = base)

\* C4: what can_fade returns for a fade other than 1.0 is
\* a + (ab - a) * fade at every position, ab being what the function it
\* decorates returned.
C4_FadeMix ==
    (JustRan("can_fade") /\ fade # One) =>
        /\ ab.shape = BShape(base.shape, raw.shape)
        /\ \A idx \in Indices(ab.shape) :
              Elem(ab, idx) =
                  Add(At(base, idx),
                      Mul(Sub(At(raw, idx), At(base, idx)), fade))
C4_Witness ==
    /\ JustRan("can_fade")
    /\ fade = Half
    /\ base = Const(<<1, 1, 1>>, Zero)
    /\ raw = Const(<<1, 1, 1>>, One)
    /\ ab = Const(<<1, 1, 1>>, Half)

\* C5: with fade = 1.0 can_fade returns what it was given, and a call at
\* fade 1.0 without a mask on two arrays of three axes returns the blend
\* (clipped, except for replace) of the two arrays centred in zeros of
\* the per-axis maximum shape.
C5_FullStrength ==
    /\ (JustRan("can_fade") /\ fade = One) => ab = raw
    /\ (/\ fade = One /\ mask = None /\ Finished
        /\ Len(base.shape) = 3 /\ Len(blend.shape) = 3) =>
          LET size == MaxShape(base.shape, blend.shape)
              pa == Centered(base, size)
              pb == Centered(blend, size)
          IN  /\ Returned
              /\ ab.shape = size
              /\ \A k \in 1..Size(size) :
                    ab.data[k] =
                        IF op \in Clipped
                        THEN Clip(BlendAt(op, pa.data[k], pb.data[k]))
                        ELSE BlendAt(op, pa.data[k], pb.data[k])
C5_Witness ==
    /\ Returned
    /\ fade = One
    /\ mask = None
    /\ base.shape = <<1, 2, 2>>
    /\ blend.shape = <<1, 1, 3>>
    /\ ab.shape = <<1, 2, 3>>

\* C6: what can_mask returns for a mask m is a*(1 - m) + ab*m at every
\* position, ab being what the function it decorates returned; without a
\* mask it returns ab unchanged.
C6_MaskMix ==
    [][(pc = "can_mask" /\ pc' # "raised") =>
          IF mask = None THEN ab' = ab
          ELSE /\ ab'.shape = BShape(BShape(base.shape, mask.shape),
                                     BShape(ab.shape, mask.shape))
               /\ \A idx \in Indices(ab'.shape) :
                     Elem(ab', idx) =
                         Add(Mul(At(base, idx), Sub(One, At(mask, idx))),
                             Mul(At(ab, idx), At(mask, idx)))]_vars
C6_Witness ==
    /\ JustRan("can_mask")
    /\ op = "replace"
    /\ fade = One
    /\ base = Const(<<1, 1, 1>>, One)
    /\ blend = Const(<<1, 1, 1>>, Zero)
    /\ mask = Const(<<1, 1, 1>>, Half)
    /\ ab = Const(<<1, 1, 1>>, Half)

\* C7: with values in [0,1] and a mask of zeros, every call returns an
\* array equal to the base array, whatever the blend and the fade.
C7_ZeroMaskReturnsBase ==
    (/\ UnitInputs /\ mask # None /\ Finished
     /\ \A k \in 1..Len(mask.data) : mask.data[k] = Zero) =>
        (Returned /\ ab = base)

\* C8: will_match_size passes on two arrays of the per-axis maximum
\* shape, each input centred in zeros at offset floor((target - original)/2).
C8_PadsToMax ==
    (Len(base.shape) = Len(blend.shape) /\ Len(trace) = 1) =>
        /\ pc # "raised"
        /\ a = Centered(base, MaxShape(base.shape, blend.shape))
        /\ b = Centered(blend, MaxShape(base.shape, blend.shape))

\* C9: will_match_size passes two arrays of equal shape on unchanged,
\* whatever their number of axes, and raises nothing.
C9_EqualShapesNoOp ==
    (base.shape = blend.shape /\ Len(trace) = 1) =>
        /\ pc # "raised"
        /\ a = base
        /\ b = blend

\* C10 as claimed: will_match_size raises, and the function it decorates
\* is never called, whenever the arrays differ in their number of axes.
C10_Original ==
    (Len(base.shape) # Len(blend.shape) /\ trace # <<>>) =>
        (pc = "raised" /\ trace = <<"will_match_size">>)
\* C10 amended: it does so unless both arrays have at least three axes
\* and the array with more axes has extent 1 on each of its first four.
MoreAxes ==
    IF Len(base.shape) > Len(blend.shape) THEN base.shape ELSE blend.shape
C10_RaisesOnAxisMismatch ==
    (/\ Len(base.shape) # Len(blend.shape)
     /\ trace # <<>>
     /\ ~(/\ Min(Len(base.shape), Len(blend.shape)) >= 3
          /\ \A k \in 1..4 : MoreAxes[k] = 1)) =>
        (pc = "raised" /\ trace = <<"will_match_size">>)
C10_Witness ==
    /\ pc = "raised"
    /\ exc = "ValueError"
    /\ trace = <<"will_match_size">>
    /\ Len(base.shape) = 3
    /\ Len(blend.shape) = 4
    /\ a = None

\* The array A of shape S re-expressed with shape (S, 3), every channel a
\* copy of A.
Replicated(A) ==
    LET shape == Append(A.shape, 3)
    IN  [err |-> "", shape |-> shape,
         data |-> [k \in 1..Size(shape) |-> A.data[((k - 1) \div 3) + 1]]]
\* One array has exactly one axis more than the other and a last axis of
\* extent 3.
Promotes(short, long) ==
    /\ Len(short.shape) + 1 = Len(long.shape)
    /\ long.shape[Len(long.shape)] = 3

\* C11: with colorize enabled, when one array has exactly one axis more
\* than the other and a last axis of extent 3, the function will_colorize
\* decorates receives the shorter array replicated over three channels
\* and the longer array unchanged, whichever of the two is shorter.
C11_Promotes ==
    (op = Spam /\ colorize /\ JustRan("will_colorize")) =>
        /\ Promotes(base, blend) => (a = Replicated(base) /\ b = blend)
        /\ Promotes(blend, base) => (a = base /\ b = Replicated(blend))
C11_Witness ==
    /\ op = Spam
    /\ colorize
    /\ Returned
    /\ base.shape = <<1, 3, 3>>
    /\ blend.shape = <<3, 3>>
    /\ a = base
    /\ b.shape = <<3, 3, 3>>
    /\ ab = b

\* C12: will_colorize passes both arrays on unchanged when colorize is
\* False, when the arrays have the same number of axes, when the array
\* with more axes has no last axis of extent 3, and when the numbers of
\* axes differ by more than one.
C12_PassesUnchanged ==
    (/\ op = Spam
     /\ JustRan("will_colorize")
     /\ \/ ~colorize
        \/ ~(Promotes(base, blend) \/ Promotes(blend, base))) =>
        (a = base /\ b = blend)
C12_Witness ==
    /\ op = Spam
    /\ ~colorize
    /\ Returned
    /\ Promotes(blend, base)
    /\ a = base
    /\ b = blend

\* C13: a published blend called with colorize enabled, fade 1.0 and no
\* mask on an array of shape S and an array of shape (S, 3), in either
\* position, raises nothing and returns the blend of the replicated
\* single-channel array with the color array, of shape (S, 3).
C13_BlendsAcrossChannels ==
    (/\ op \in Blends /\ colorize /\ fade = One /\ mask = None /\ Finished
     /\ \/ blend.shape = Append(base.shape, 3)
        \/ base.shape = Append(blend.shape, 3)) =>
        /\ Returned
        /\ ab.shape = IF Len(base.shape) < Len(blend.shape)
                      THEN blend.shape ELSE base.shape

\* The stage that ran last, returning or raising.
LastStage == IF trace = <<>> THEN "" ELSE trace[Len(trace)]
\* The shape of what can_fade returns, given the shape of what it got.
FadedShape ==
    IF fade = One THEN raw.shape ELSE BShape(base.shape, raw.shape)
\* Whether a * (1 - mask) + ab * mask broadcasts.
MaskBroadcasts ==
    /\ CanBroadcast(base.shape, mask.shape)
    /\ CanBroadcast(FadedShape, mask.shape)
    /\ CanBroadcast(BShape(base.shape, mask.shape),
                    BShape(FadedShape, mask.shape))

\* C14 as claimed: no published blend returns a result when the mask's
\* shape differs from the shape of the reconciled arrays.
C14_Original ==
    (Returned /\ mask # None) => mask.shape = a.shape
\* C14 amended: the mask stage raises exactly when the shapes of the
\* mask, of the base passed in and of the faded result do not broadcast
\* together; a mask that broadcasts is applied by broadcasting.
C14_RaisesUnlessBroadcast ==
    (mask # None /\ LastStage = "can_mask") =>
        /\ pc = "raised" <=> ~MaskBroadcasts
        /\ pc = "raised" => exc = "ValueError"
        /\ pc # "raised" =>
              ab.shape = BShape(BShape(base.shape, mask.shape),
                                BShape(FadedShape, mask.shape))
C14_Witness ==
    /\ pc = "raised"
    /\ LastStage = "can_mask"
    /\ base.shape = <<1, 1, 3>>
    /\ blend.shape = <<1, 1, 3>>
    /\ mask # None
    /\ mask.shape = <<1, 1, 2>>

\* C15 as claimed: no call evaluates the raw algorithm and then fails.
C15_Original ==
    pc = "raised" => raw = None
\* C15 amended: a call that fails raises either in will_match_size,
\* before the raw algorithm is evaluated, or in the fade or the mask
\* stage, after it, with a base or a mask that does not broadcast with
\* the result; the other stages raise nothing.
C15_ErrorStages ==
    pc = "raised" =>
        \/ /\ trace = <<"will_match_size">>
           /\ raw = None
           /\ exc \in {"IndexError", "ValueError"}
        \/ /\ LastStage = "can_fade"
           /\ raw # None
           /\ fade # One
           /\ ~CanBroadcast(base.shape, raw.shape)
           /\ exc = "ValueError"
        \/ /\ LastStage = "can_mask"
           /\ raw # None
           /\ mask # None
           /\ ~MaskBroadcasts
           /\ exc = "ValueError"
C15_Witness ==
    /\ pc = "raised"
    /\ LastStage = "can_fade"
    /\ raw # None
    /\ raw.shape = <<1, 2, 3>>
    /\ base.shape = <<1, 2, 2>>

\* C16 as claimed: with a fade other than 1.0 or with a mask, whenever
\* base and blend differ in shape the base that the fade and mask stages
\* mix with differs in shape from the algorithm's result.
C16_Original ==
    (/\ fade # One \/ mask # None
     /\ raw # None
     /\ base.shape # blend.shape) =>
        base.shape # raw.shape
\* C16 amended: it does whenever the base is smaller than the blend on
\* some axis; the fade and mask stages mix with the base as passed in.
C16_BaseShapeDisagrees ==
    (/\ fade # One \/ mask # None
     /\ raw # None
     /\ base.shape # MaxShape(base.shape, blend.shape)) =>
        /\ OwnA("can_fade") = base
        /\ OwnA("can_mask") = base
        /\ OwnA("can_fade").shape # raw.shape
C16_Witness ==
    /\ pc = "raised"
    /\ LastStage = "can_fade"
    /\ fade = Half
    /\ base.shape = <<1, 2, 2>>
    /\ blend.shape = <<1, 3, 3>>
    /\ raw.shape = <<1, 3, 3>>

\* A value brought into [0,1].
Clamped(x) == IF Lt(x, Zero) THEN Zero ELSE IF Lt(One, x) THEN One ELSE x
\* A call at full strength (fade 1.0, no mask) of blend name has returned.
FullStrength(name) ==
    /\ op = name
    /\ fade = One
    /\ mask = None
    /\ Returned
Cells == 1..Len(ab.data)

\* C17: color_burn returns exactly 0 wherever the blend value is 0,
\* whatever the base value, and 1 - (1 - a)/b brought into [0,1] wherever
\* it is not.
C17_ColorBurn ==
    FullStrength("color_burn") =>
        \A k \in Cells :
            ab.data[k] =
                IF b.data[k] = Zero THEN Zero
                ELSE Clamped(Sub(One, Div(Sub(One, a.data[k]), b.data[k])))
C17_Witness ==
    /\ FullStrength("color_burn")
    /\ base = Const(<<1, 1, 1>>, Q(1, 4))
    /\ blend = Const(<<1, 1, 1>>, Zero)
    /\ ab = Const(<<1, 1, 1>>, Zero)

\* C18: color_dodge returns exactly 1 wherever the blend value is 1,
\* whatever the base value, and a/(1 - b) brought into [0,1] wherever it
\* is not.
C18_ColorDodge ==
    FullStrength("color_dodge") =>
        \A k \in Cells :
            ab.data[k] =
                IF b.data[k] = One THEN One
                ELSE Clamped(Div(a.data[k], Sub(One, b.data[k])))
C18_Witness ==
    /\ FullStrength("color_dodge")
    /\ base = Const(<<1, 1, 1>>, Zero)
    /\ blend = Const(<<1, 1, 1>>, One)
    /\ ab = Const(<<1, 1, 1>>, One)

\* C19: vivid_light never raises; it returns 0 wherever the base value
\* is exactly 0 or exactly 1, 1 - (1 - b)/(2a) brought into [0,1] where
\* 0 < a <= 0.5, and b/(2(1 - a)) brought into [0,1] where 0.5 < a < 1.
C19_VividLight ==
    /\ (op = "vivid_light" /\ fade = One /\ mask = None) => pc # "raised"
    /\ FullStrength("vivid_light") =>
          \A k \in Cells :
              LET x == a.data[k]
                  y == b.data[k]
              IN  /\ (x = Zero \/ x = One) => ab.data[k] = Zero
                  /\ (Lt(Zero, x) /\ Le(x, Half)) =>
                        ab.data[k] =
                            Clamped(Sub(One, Div(Sub(One, y), Mul(Two, x))))
                  /\ (Lt(Half, x) /\ Lt(x, One)) =>
                        ab.data[k] =
                            Clamped(Div(y, Mul(Two, Sub(One, x))))
C19_Witness ==
    /\ FullStrength("vivid_light")
    /\ base = Const(<<1, 1, 1>>, One)
    /\ blend = Const(<<1, 1, 1>>, Half)
    /\ ab = Const(<<1, 1, 1>>, Zero)

\* C20: hard_mix returns 0 where a < 1 - b, 1 where a > 1 - b and 0 where
\* a = 1 - b, so at full strength every element is 0 or 1.
C20_HardMix ==
    FullStrength("hard_mix") =>
        \A k \in Cells :
            /\ Lt(a.data[k], Sub(One, b.data[k])) => ab.data[k] = Zero
            /\ Gt(a.data[k], Sub(One, b.data[k])) => ab.data[k] = One
            /\ a.data[k] = Sub(One, b.data[k]) => ab.data[k] = Zero
            /\ ab.data[k] \in {Zero, One}
C20_Witness ==
    /\ FullStrength("hard_mix")
    /\ base = Const(<<1, 1, 1>>, Q(1, 4))
    /\ blend = Const(<<1, 1, 1>>, Q(3, 4))
    /\ ab = Const(<<1, 1, 1>>, Zero)

\* C21: pin_light returns 2a - 1 where b < 2a - 1, 2a where b > 2a and b
\* otherwise; the cases exclude one another, and for inputs in [0,1] the
\* output is b brought into [2a - 1, 2a].
C21_PinLight ==
    (op = "pin_light" /\ raw # None) =>
        \A k \in 1..Len(raw.data) :
            LET x == a.data[k]
                y == b.data[k]
                lo == Sub(Mul(Two, x), One)
                hi == Mul(Two, x)
            IN  /\ ~(Lt(y, lo) /\ Gt(y, hi))
                /\ Lt(y, lo) => raw.data[k] = lo
                /\ Gt(y, hi) => raw.data[k] = hi
                /\ (~Lt(y, lo) /\ ~Gt(y, hi)) => raw.data[k] = y
                /\ (FullStrength("pin_light") /\ InUnit(x) /\ InUnit(y)) =>
                      ab.data[k] = IF Lt(y, lo) THEN lo
                                   ELSE IF Lt(hi, y) THEN hi ELSE y
C21_Witness ==
    /\ FullStrength("pin_light")
    /\ base = Const(<<1, 1, 1>>, Q(3, 4))
    /\ blend = Const(<<1, 1, 1>>, Q(1, 4))
    /\ ab = Const(<<1, 1, 1>>, Half)

\* C23: on arrays of one shape at full strength darker returns the
\* elementwise minimum of base and blend and lighter the elementwise
\* maximum, ties included.
Smaller(x, y) == IF Le(x, y) THEN x ELSE y
Larger(x, y) == IF Le(x, y) THEN y ELSE x
C23_MinAndMax ==
    (fade = One /\ mask = None /\ Returned /\ base.shape = blend.shape) =>
        /\ op = "darker" =>
              \A k \in Cells :
                  ab.data[k] = Clamped(Smaller(base.data[k], blend.data[k]))
        /\ op = "lighter" =>
              \A k \in Cells :
                  ab.data[k] = Clamped(Larger(base.data[k], blend.data[k]))
C23_Witness ==
    /\ FullStrength("darker")
    /\ base.shape = <<1, 2, 3>>
    /\ blend.shape = <<1, 2, 3>>
    /\ ab.data = <<Q(1, 4), Half, Q(1, 4), Q(3, 4), Zero, One>>

\* C25: replace, darker and lighter called with one array of values in
\* [0,1] as base and as blend, at fade 1.0 and without a mask, return an
\* array equal to it.
C25_SameArrayTwice ==
    /\ (/\ op \in {"replace", "darker", "lighter"}
        /\ fade = One /\ mask = None /\ Finished
        /\ base = blend /\ AllInUnit(base)) =>
          (Returned /\ ab = base)
    /\ (op \in {"replace", "darker", "lighter"} /\ AllInUnit(base)) =>
          Published(op, base, base, One, None, TRUE) = base
C25_Witness ==
    /\ FullStrength("lighter")
    /\ base = Const(<<1, 1, 1>>, Q(3, 4))
    /\ blend = base
    /\ ab = base

\* C26: will_clip keeps the shape of what it is given, puts 0 for every
\* value below 0 and 1 for every value above 1, and leaves the values of
\* [0,1] alone; clipping what it returned changes nothing.
C26_Clips ==
    [][pc = "will_clip" =>
          /\ ab'.shape = ab.shape
          /\ \A k \in 1..Len(ab.data) :
                /\ Lt(ab.data[k], Zero) => ab'.data[k] = Zero
                /\ Gt(ab.data[k], One) => ab'.data[k] = One
                /\ InUnit(ab.data[k]) => ab'.data[k] = ab.data[k]
          /\ will_clip(ab') = ab']_vars
C26_Witness ==
    /\ JustRan("will_clip")
    /\ op = "linear_light"
    /\ fade = One
    /\ mask = None
    /\ \E k \in Cells : Lt(raw.data[k], Zero) /\ ab.data[k] = Zero
    /\ \E k \in Cells : Gt(raw.data[k], One) /\ ab.data[k] = One
    /\ \E k \in Cells : InUnit(raw.data[k]) /\ ab.data[k] = raw.data[k]

\* C27: for inputs in [0,1] linear_dodge at full strength returns
\* min(1, a + b): the sum is formed first and clipped afterwards.
C27_LinearDodge ==
    (FullStrength("linear_dodge") /\ UnitInputs) =>
        /\ \A k \in Cells : raw.data[k] = Add(a.data[k], b.data[k])
        /\ \A k \in Cells :
              ab.data[k] = Smaller(One, Add(a.data[k], b.data[k]))
C27_Witness ==
    /\ FullStrength("linear_dodge")
    /\ base = Const(<<1, 1, 1>>, Half)
    /\ blend = Const(<<1, 1, 1>>, One)
    /\ raw = Const(<<1, 1, 1>>, Q(3, 2))
    /\ ab = Const(<<1, 1, 1>>, One)

NoNaN(A) == \A k \in 1..Len(A.data) : ~IsNaN(A.data[k])
\* The same call of another blend, and the call with base and blend
\* exchanged.
SameCallOf(name) == Published(name, base, blend, fade, mask, colorize)
Exchanged(name) == Published(name, blend, base, fade, mask, colorize)

C22_SameUnlessNaN ==
    /\ (op \in {"hard_light", "overlay"} /\ raw # None /\ NoNaN(a)) =>
          \A k \in 1..Len(raw.data) :
              raw.data[k] =
                  IF Lt(a.data[k], Half)
                  THEN Mul(Mul(Two, a.data[k]), b.data[k])
                  ELSE Sub(One, Mul(Mul(Two, Sub(One, a.data[k])),
                                    Sub(One, b.data[k])))
    /\ (op = "hard_light" /\ Returned /\ NoNaN(base)) =>
          ab = SameCallOf("overlay")
    /\ (op = "overlay" /\ Returned /\ NoNaN(base)) =>
          ab = SameCallOf("hard_light")
    /\ (FullStrength("hard_light") /\ ~NoNaN(base)) =>
          \A k \in Cells :
              IsNaN(base.data[k]) =>
                  /\ ab.data[k] = Zero
                  /\ IsNaN(SameCallOf("overlay").data[k])
C22_Witness ==
    /\ FullStrength("hard_light")
    /\ base = Const(<<1, 1, 1>>, Half)
    /\ blend = Const(<<1, 1, 1>>, Q(1, 4))
    /\ ab = Const(<<1, 1, 1>>, Q(1, 4))
    /\ SameCallOf("overlay") = ab

\* C24 as claimed: on arrays of one shape darker(a, b) equals
\* lighter(b, a) and lighter(a, b) equals darker(b, a).
C24_Original ==
    /\ (FullStrength("darker") /\ base.shape = blend.shape) =>
          ab = Exchanged("lighter")
    /\ (FullStrength("lighter") /\ base.shape = blend.shape) =>
          ab = Exchanged("darker")
\* C24 amended: on arrays of one shape without NaN darker(a, b) equals
\* darker(b, a) and lighter(a, b) equals lighter(b, a); for values in
\* [0,1], darker(a, b) and lighter(b, a) (and lighter(a, b) and
\* darker(b, a)) agree at exactly the positions where a equals b.
Dual(name) == IF name = "darker" THEN "lighter" ELSE "darker"
C24_CommutativeNotDual ==
    (/\ op \in {"darker", "lighter"}
     /\ fade = One /\ mask = None /\ Returned
     /\ base.shape = blend.shape
     /\ NoNaN(base) /\ NoNaN(blend)) =>
        /\ ab = Exchanged(op)
        /\ UnitInputs =>
              \A k \in Cells :
                  ab.data[k] = Exchanged(Dual(op)).data[k]
                      <=> base.data[k] = blend.data[k]
C24_Witness ==
    /\ FullStrength("darker")
    /\ base.shape = <<1, 2, 3>>
    /\ blend.shape = <<1, 2, 3>>
    /\ ab = Exchanged("darker")
    /\ ab.data[1] # Exchanged("lighter").data[1]
    /\ ab.data[4] = Exchanged("lighter").data[4]

\* C28: no call changes the caller's base, blend or mask array, whether
\* it returns or raises, although will_clip overwrites the out-of-range
\* values of the result in place.
C28_InputsUntouched ==
    [][base' = base /\ blend' = blend /\ mask' = mask]_vars
C28_Witness ==
    /\ Returned
    /\ op = Darker0
    /\ fade = One
    /\ mask = None
    /\ base = Const(<<1, 1, 1>>, Q(3, 2))
    /\ blend = Const(<<1, 1, 1>>, Q(3, 2))
    /\ raw = base
    /\ ab = Const(<<1, 1, 1>>, One)
    /\ ref = "fresh"

\* The mask whose every element is fade times the mask's.
ScaledMask ==
    [mask EXCEPT !.data = [k \in DOMAIN mask.data |-> Mul(fade, mask.data[k])]]

Full == Published(op, base, blend, One, None, colorize)
Within(x, p, q) == (Le(p, x) /\ Le(x, q)) \/ (Le(q, x) /\ Le(x, p))
Faded ==
    /\ Returned
    /\ mask = None
    /\ base.shape = blend.shape
    /\ AllInUnit(base)
    /\ InUnit(fade)

\* C30 as claimed: for inputs of one shape, base values in [0,1] and
\* fade in [0,1], the output lies at every position between the base
\* value and the output at full strength.
C30_Original ==
    Faded => \A k \in Cells : Within(ab.data[k], base.data[k], Full.data[k])
\* C30 amended: the output is the clipped mix of the base and the
\* unclipped raw result, and lies between the base value and the output
\* at full strength at every position where the latter is not NaN.
C30_BetweenUnlessNaN ==
    Faded =>
        \A k \in Cells :
            /\ op # "replace" =>
                  ab.data[k] =
                      Clip(Add(base.data[k],
                               Mul(fade, Sub(raw.data[k], base.data[k]))))
            /\ \/ IsNaN(Full.data[k])
               \/ Within(ab.data[k], base.data[k], Full.data[k])
C30_Witness ==
    /\ Faded
    /\ op = "linear_dodge"
    /\ fade = Half
    /\ base = Const(<<1, 1, 1>>, Half)
    /\ blend = Const(<<1, 1, 1>>, One)
    /\ Full = Const(<<1, 1, 1>>, One)
    /\ ab = Const(<<1, 1, 1>>, One)
    /\ ab.data[1] #
          Add(base.data[1], Mul(fade, Sub(Full.data[1], base.data[1])))

====
